---- MODULE Spec2Model ----
(***************************************************************************)
(* The immudb vault client of PyTest_immudb/immudb.py and the call         *)
(* sequences of PyTest_immudb/test_immudb.py.                              *)
(*                                                                         *)
(* The vault is the remote collection: an ordered sequence of stored       *)
(* documents, one per accepted PUT.  A document is a transaction           *)
(*   [account_number |-> a, amount |-> m]                                  *)
(* or the batch envelope [document |-> <<t1, ..., tn>>].  Amounts are      *)
(* counted in thousandths (1.0 is 1000), so that rounding to two decimals  *)
(* is something the model computes.  Python values handed to               *)
(* put_data_request are tagged with their type: [py |-> "dict", v |-> d],  *)
(* [py |-> "list", v |-> l], [py |-> "None", v |-> <<>>].                  *)
(*                                                                         *)
(* The remote service answers every request with a status of its own       *)
(* choice; a search without an ordering lists the documents in stored      *)
(* order.                                                                  *)
(***************************************************************************)
EXTENDS Integers, Sequences, FiniteSets, TLC

VARIABLES vault,        \* the remote collection: Seq of documents
          transaction,  \* per client: the `transaction` fixture (a mutable dict)
          hist,         \* the calls made so far, in the order the remote saw them
          current_data, \* get_all_transaction: the last search response
          all_doc,      \* get_all_transaction: the last list built
          fault,        \* get_all_transaction: TRUE when the last call raised
          drawn         \* generate_transaction: the last value of random.uniform

vars == <<vault, transaction, hist, current_data, all_doc, fault, drawn>>

----------------------------------------------------------------------------
(* Bounds of the model *)

MaxCalls == 3        \* calls per behaviour
DrawWindow == 30     \* width of the windows of random.uniform values at each end
MaxRevs == 3         \* revisions of a small search response
MaxBatch == 2        \* length of a small batch

(* Program constants *)

PerPage == 100           \* immudb.py:97
BatchSize == 110         \* test_immudb.py:147
UniformLow == 1000       \* immudb.py:49, 1.0
UniformHigh == 10000000  \* immudb.py:49, 10000.0
Amount999 == 999000      \* test_immudb.py:82, 999

Clients == {"A", "B"}
Statuses == {200, 201, 500}
Accounts == {1, 2}          \* account numbers of single transactions

Min(a, b) == IF a < b THEN a ELSE b

----------------------------------------------------------------------------
(* generate_transaction *)

\* A generate_transaction that does not round
round2_none(x) == {x}

\* round(x, 2): the nearest multiple of 0.01; a value this model draws half way
\* stands for the binary floats on either side of it, which round either way.
round2(x) ==
    LET lo == (x \div 10) * 10
        r  == x % 10
    IN  IF r < 5 THEN {lo}
        ELSE IF r > 5 THEN {lo + 10}
        ELSE {lo, lo + 10}

\* random.uniform(1.0, 10000.0): a + (b - a) * random(), random() in [0, 1)
uniform == UniformLow .. (UniformHigh - 1)

Draws == { x \in uniform : x <= UniformLow + DrawWindow
                           \/ x >= UniformHigh - 1 - DrawWindow }

\* The transactions generate_transaction builds from an account number and a draw
generate_transaction(acct, x) ==
    { [account_number |-> acct, amount |-> m] : m \in round2(x) }

\* The transactions the fixture and the tests generate in the vault scenarios:
\* one per account number, from the least draw
Generated ==
    UNION { generate_transaction(acct, UniformLow) : acct \in Accounts }

\* [generate_transaction() for _ in range(110)]: element i of list k has an
\* account number of its own
BatchList(k) ==
    [i \in 1..BatchSize |-> [account_number |-> 1000 * k + i, amount |-> UniformLow]]

BatchLists == { BatchList(k) : k \in {1} }

PyDict(d) == [py |-> "dict", v |-> d]
PyList(l) == [py |-> "list", v |-> l]
PyNone == [py |-> "None", v |-> <<>>]

----------------------------------------------------------------------------
(* The remote service *)

\* PUT .../document: an accepted request with a JSON body stores the body as
\* one more document; a request without a body carries no document
RemotePut(v, body, status) ==
    IF status = 200 /\ body.py = "dict" THEN Append(v, body.v) ELSE v

\* DELETE .../collection/default
RemoteDelete(v, status) ==
    IF status = 200 THEN <<>> ELSE v

\* A search that lists every document
SearchPageAll(v) ==
    [i \in 1..Len(v) |-> [document |-> v[i]]]

\* POST .../documents/search with {"page": 1, "perPage": 100}: the first page
\* of the stored documents, each wrapped in a revision
SearchPage(v) ==
    [i \in 1..Min(Len(v), PerPage) |-> [document |-> v[i]]]

RemoteSearch(v, status) ==
    IF status = 200
    THEN [revisions |-> SearchPage(v), page |-> 1, perPage |-> PerPage]
    ELSE [error |-> "request failed", status |-> status]

----------------------------------------------------------------------------
(* The vault client *)

\* A put_data_request that sends a list as it is
JsonBodyUnwrapped(data) == data

\* put_data_request, lines 67-70: a list is wrapped in the batch envelope
JsonBody(data) ==
    IF data.py = "list" THEN PyDict([document |-> data.v]) ELSE data

\* A put_data_request that takes every 2xx for success
put_return_2xx(status) == status < 300

\* put_data_request, lines 74-77
put_return(status) == status = 200

\* A delete_collection that reports success whatever the status
delete_return_always(status) == TRUE

\* delete_collection, lines 127-131
delete_return(status) == status = 200

\* get_data_request, lines 99-103: the decoded body, whatever the status
get_data_request(v, status) == RemoteSearch(v, status)

\* An inner loop that stops one element short
AppendInsideShort(acc, inside) ==
    IF inside = <<>> THEN acc ELSE acc \o SubSeq(inside, 1, Len(inside) - 1)

\* get_all_transaction, lines 149-150: the inner loop over a batch
AppendInside(acc, inside) == acc \o inside

\* get_all_transaction, line 152
AppendSingle(acc, doc) == Append(acc, doc)

\* get_all_transaction, lines 147-152: what the loop appends to all_doc while it
\* goes through revisions lo..hi, in that order.  The range is split in halves
\* to keep the evaluation shallow; the loop body is the case lo = hi.
RECURSIVE Flatten(_, _, _)
Flatten(revision, lo, hi) ==
    IF lo > hi THEN <<>>
    ELSE IF lo = hi
    THEN LET document == revision[lo]
         IN  IF "document" \in DOMAIN document.document
             THEN AppendInside(<<>>, document.document.document)
             ELSE AppendSingle(<<>>, document.document)
    ELSE LET mid == (lo + hi) \div 2
         IN  Flatten(revision, lo, mid) \o Flatten(revision, mid + 1, hi)

\* current_data.get('revisions') is None when the key is missing, and the for
\* statement over None raises TypeError
Raises(data) == "revisions" \notin DOMAIN data

\* A get_all_transaction that takes a missing revisions field for no revisions
get_all_transaction_guarded(data) ==
    IF Raises(data)
    THEN [raised |-> FALSE, value |-> <<>>]
    ELSE [raised |-> FALSE, value |-> Flatten(data.revisions, 1, Len(data.revisions))]

\* get_all_transaction, lines 145-153, on the response it fetched: it raises, or
\* returns all_doc
get_all_transaction(data) ==
    IF Raises(data)
    THEN [raised |-> TRUE, value |-> <<>>]
    ELSE [raised |-> FALSE, value |-> Flatten(data.revisions, 1, Len(data.revisions))]

----------------------------------------------------------------------------
(* One call of the client, as the remote sees it *)

Call(c, op, arg, data, status, ret) ==
    [client |-> c, op |-> op, arg |-> arg, data |-> data, status |-> status, ret |-> ret]

Put(c, arg, data) ==
    \E status \in Statuses :
        /\ Len(hist) < MaxCalls
        /\ vault' = RemotePut(vault, JsonBody(data), status)
        /\ hist' = Append(hist, Call(c, "put", arg, data, status, put_return(status)))
        /\ UNCHANGED <<current_data, all_doc, fault, drawn>>

\* put_data_request(transaction)
PutTransaction(c) ==
    /\ Put(c, "transaction", PyDict(transaction[c]))
    /\ UNCHANGED transaction

\* put_data_request(generate_transaction())
PutGenerated(c) ==
    /\ \E t \in Generated : Put(c, "generated", PyDict(t))
    /\ UNCHANGED transaction

\* put_data_request(transaction.update({'amount': 999})): dict.update changes
\* the dict in place and returns None, which is what is sent
PutUpdate(c) ==
    /\ transaction' = [transaction EXCEPT ![c].amount = Amount999]
    /\ Put(c, "update", PyNone)

\* put_data_request(transaction_list)
PutBatch(c) ==
    /\ \E l \in BatchLists : Put(c, "list", PyList(l))
    /\ UNCHANGED transaction

\* delete_collection()
Delete(c) ==
    \E status \in Statuses :
        /\ Len(hist) < MaxCalls
        /\ vault' = RemoteDelete(vault, status)
        /\ hist' = Append(hist, Call(c, "delete", "none", PyNone, status, delete_return(status)))
        /\ UNCHANGED <<transaction, current_data, all_doc, fault, drawn>>

\* get_all_transaction()
GetAll(c) ==
    \E status \in Statuses :
        /\ Len(hist) < MaxCalls
        /\ current_data' = get_data_request(vault, status)
        /\ fault' = get_all_transaction(current_data').raised
        /\ all_doc' = get_all_transaction(current_data').value
        /\ hist' = Append(hist, Call(c, "get_all", "none", PyNone, status, ~fault'))
        /\ UNCHANGED <<vault, transaction, drawn>>

\* transaction = generate_transaction(), the fixture
Generate(c) ==
    \E acct \in Accounts, x \in Draws :
        /\ drawn' = x
        /\ \E t \in generate_transaction(acct, x) :
               transaction' = [transaction EXCEPT ![c] = t]
        /\ UNCHANGED <<vault, hist, current_data, all_doc, fault>>

----------------------------------------------------------------------------
(* Specifications *)

NoResponse == [error |-> "none", status |-> 0]

\* What the vault may hold before the client runs
Prior(n) == [i \in 1..n |-> [account_number |-> 1, amount |-> UniformLow]]

PriorVaults == { Prior(n) : n \in {0, PerPage - 1, PerPage} }

InitClient ==
    /\ hist = <<>>
    /\ current_data = NoResponse
    /\ all_doc = <<>>
    /\ fault = FALSE
    /\ drawn = UniformLow

\* One client running calls in any order against a vault with prior contents
Init ==
    /\ vault \in PriorVaults
    /\ \E t \in Generated : transaction = [c \in Clients |-> t]
    /\ InitClient

Step(c) ==
    \/ PutTransaction(c)
    \/ PutGenerated(c)
    \/ PutUpdate(c)
    \/ PutBatch(c)
    \/ Delete(c)
    \/ GetAll(c)

Next == Step("A")

Spec == Init /\ [][Next]_vars

\* Two clients sharing the vault
InitRace ==
    /\ vault = <<>>
    /\ transaction \in [Clients -> Generated]
    /\ InitClient

\* A makes the calls of test_transaction_included_not_empty_vault, B those of
\* test_transaction_included_empty_vault
NextRace ==
    \/ PutTransaction("A")
    \/ GetAll("A")
    \/ Delete("B")
    \/ PutTransaction("B")
    \/ GetAll("B")

SpecRace == InitRace /\ [][NextRace]_vars

\* The fixture alone: generate_transaction over the draws
InitGen ==
    /\ vault = <<>>
    /\ \E t \in Generated : transaction = [c \in Clients |-> t]
    /\ InitClient

NextGen == Generate("A")

SpecGen == InitGen /\ [][NextGen]_vars

\* get_all_transaction over small search responses of every shape
LeafA == [account_number |-> 1, amount |-> UniformLow]
LeafB == [account_number |-> 2, amount |-> Amount999]

RECURSIVE SeqsUpTo(_, _)
SeqsUpTo(S, n) ==
    IF n = 0 THEN {<<>>}
    ELSE LET shorter == SeqsUpTo(S, n - 1)
         IN  shorter \cup { Append(s, x) : s \in shorter, x \in S }

SmallDocs ==
    {LeafA, LeafB} \cup { [document |-> l] : l \in SeqsUpTo({LeafA, LeafB}, MaxBatch) }

InitFlat ==
    /\ vault \in SeqsUpTo(SmallDocs, MaxRevs)
    /\ transaction = [c \in Clients |-> LeafA]
    /\ InitClient

NextFlat == hist = <<>> /\ GetAll("A")

SpecFlat == InitFlat /\ [][NextFlat]_vars

----------------------------------------------------------------------------
(* Properties *)

\* The k-th call before the last one (0: the last call)
Back(k) == hist[Len(hist) - k]

IsBatch(doc) == "document" \in DOMAIN doc

\* Number of transactions a stored document holds
Leaves(doc) == IF IsBatch(doc) THEN Len(doc.document) ELSE 1

\* Number of transactions documents lo..hi of docs hold
RECURSIVE LeafSum(_, _, _)
LeafSum(docs, lo, hi) ==
    IF lo > hi THEN 0
    ELSE IF lo = hi THEN Leaves(docs[lo])
    ELSE LET mid == (lo + hi) \div 2
         IN  LeafSum(docs, lo, mid) + LeafSum(docs, mid + 1, hi)

DocsOf(revisions) == [i \in DOMAIN revisions |-> revisions[i].document]

AccountNumbers(list) == { list[i].account_number : i \in DOMAIN list }

LastIsGetAll == hist # <<>> /\ Back(0).op = "get_all"

\* The list get_all_transaction returned last
Returned == LastIsGetAll /\ ~fault

\* C1: for a search response with a revisions sequence, get_all_transaction
\* returns the concatenation in revision order: the transactions of revision i
\* sit right after those of revisions 1..i-1, a batch's elements in their nested
\* order and a single document as itself, and nothing else is in the list.
C1_FlattenIsConcatenation ==
    (LastIsGetAll /\ "revisions" \in DOMAIN current_data) =>
        LET docs == DocsOf(current_data.revisions)
            off(i) == LeafSum(docs, 1, i - 1)
        IN  /\ ~fault
            /\ Len(all_doc) = off(Len(docs) + 1)
            /\ \A i \in DOMAIN docs :
                   IF IsBatch(docs[i])
                   THEN \A j \in DOMAIN docs[i].document :
                            all_doc[off(i) + j] = docs[i].document[j]
                   ELSE all_doc[off(i) + 1] = docs[i]

\* C1 witness: a single document, a batch of two and a single document again
\* were flattened into four transactions.
C1_Witness ==
    /\ Returned
    /\ Len(current_data.revisions) = 3
    /\ ~IsBatch(current_data.revisions[1].document)
    /\ IsBatch(current_data.revisions[2].document)
    /\ current_data.revisions[2].document.document = <<LeafA, LeafB>>
    /\ ~IsBatch(current_data.revisions[3].document)
    /\ all_doc = <<current_data.revisions[1].document, LeafA, LeafB,
                   current_data.revisions[3].document>>

\* C2: after a put_data_request of a single transaction t returned True, the
\* list the next get_all_transaction of that client returns holds an entry with
\* t's account_number, whatever the vault held before.
C2_WriteThenSearch ==
    (/\ Len(hist) >= 2
     /\ Returned
     /\ Back(1).op = "put" /\ Back(1).data.py = "dict" /\ Back(1).ret
     /\ Back(1).client = Back(0).client) =>
        Back(1).data.v.account_number \in AccountNumbers(all_doc)

\* C3: after a put_data_request of a list of 110 transactions returned True,
\* into a vault that was empty or held one single transaction, the list the
\* next get_all_transaction returns holds an entry with the account_number of
\* the list's element at index 99.
C3_BatchRoundTrip ==
    (/\ Len(hist) >= 2
     /\ Returned
     /\ Back(1).op = "put" /\ Back(1).data.py = "list" /\ Back(1).ret
     /\ Back(1).client = Back(0).client
     /\ \/ Len(vault) = 1
        \/ Len(vault) = 2 /\ ~IsBatch(vault[1])) =>
        /\ Len(Back(1).data.v) = BatchSize
        /\ Back(1).data.v[99 + 1].account_number \in AccountNumbers(all_doc)

\* C3 witness: a batch was written on top of a single transaction and read back.
C3_Witness ==
    /\ Len(hist) >= 2
    /\ Returned
    /\ Back(1).op = "put" /\ Back(1).data.py = "list" /\ Back(1).ret
    /\ Len(vault) = 2 /\ ~IsBatch(vault[1])
    /\ Len(all_doc) = 1 + BatchSize

\* C4: after put_data_request(transaction), then
\* put_data_request(transaction.update({'amount': 999})), the list
\* get_all_transaction returns holds an entry with the transaction's
\* account_number and amount 999.
C4_Overwrite ==
    (/\ Len(hist) >= 3
     /\ Returned
     /\ Back(2).op = "put" /\ Back(2).arg = "transaction"
     /\ Back(1).op = "put" /\ Back(1).arg = "update"
     /\ Back(2).client = Back(0).client /\ Back(1).client = Back(0).client) =>
        \E i \in DOMAIN all_doc :
            /\ all_doc[i].account_number = transaction[Back(0).client].account_number
            /\ all_doc[i].amount = Amount999

\* The calls delete_collection(), put_data_request(t) of a single transaction
\* and get_all_transaction() were the last three, by one client
DeletePutGet ==
    /\ Len(hist) >= 3
    /\ Returned
    /\ Back(2).op = "delete"
    /\ Back(1).op = "put" /\ Back(1).data.py = "dict"
    /\ Back(2).client = Back(0).client /\ Back(1).client = Back(0).client

\* C5 as stated: after delete_collection() and one put_data_request(t), the
\* account numbers of the list get_all_transaction returns are exactly {t's}.
C5_EmptyVaultAsStated ==
    DeletePutGet => AccountNumbers(all_doc) = {Back(1).data.v.account_number}

\* C5: after delete_collection() returned True and one put_data_request(t)
\* returned True, the list get_all_transaction returns is t alone: its account
\* numbers are exactly {t's account_number}.
C5_EmptyVault ==
    (DeletePutGet /\ Back(2).ret /\ Back(1).ret) =>
        /\ AccountNumbers(all_doc) = {Back(1).data.v.account_number}
        /\ all_doc = <<Back(1).data.v>>

\* C5 witness: the three calls succeeded in this order and the list holds the
\* one transaction written.
C5_Witness ==
    /\ DeletePutGet /\ Back(2).ret /\ Back(1).ret
    /\ Len(vault) = 1
    /\ Len(all_doc) = 1

\* C6: put_data_request returns True exactly when the status is 200, for a
\* single record and for a list, and a list is stored whole or not at all:
\* every batch in the vault is a complete list that was sent.
C6_PutReturn ==
    /\ \A i \in DOMAIN hist :
           hist[i].op = "put" => (hist[i].ret <=> hist[i].status = 200)
    /\ \A k \in DOMAIN vault :
           IsBatch(vault[k]) => vault[k].document \in BatchLists

\* C6 witness: a list was accepted and stored, and a single record was answered
\* with 201 and reported False.
C6_Witness ==
    /\ \E i \in DOMAIN hist :
           hist[i].op = "put" /\ hist[i].data.py = "list" /\ hist[i].ret
    /\ \E i \in DOMAIN hist :
           hist[i].op = "put" /\ hist[i].data.py = "dict" /\ hist[i].status = 201
              /\ ~hist[i].ret
    /\ \E k \in DOMAIN vault : IsBatch(vault[k])

\* C7: when the search response has no revisions field, get_all_transaction
\* raises and returns no list.
C7_MissingRevisionsRaises ==
    (LastIsGetAll /\ "revisions" \notin DOMAIN current_data) =>
        /\ fault
        /\ ~Back(0).ret

\* C7 witness: a search answered with 500 on a vault that holds documents.
C7_Witness ==
    /\ LastIsGetAll
    /\ Back(0).status = 500
    /\ "error" \in DOMAIN current_data
    /\ vault # <<>>
    /\ fault

\* C8 as stated: the amount of a generated transaction lies in [1.00, 10000.00)
\* and has at most 2 fractional digits.
C8_AmountHalfOpen ==
    \A c \in Clients :
        /\ UniformLow <= transaction[c].amount
        /\ transaction[c].amount < UniformHigh
        /\ transaction[c].amount % 10 = 0

\* C8: the amount of a generated transaction lies in [1.00, 10000.00], both ends
\* included, has at most 2 fractional digits, and is within 0.005 of the value
\* drawn.
C8_AmountClosed ==
    /\ \A c \in Clients :
           /\ UniformLow <= transaction[c].amount
           /\ transaction[c].amount <= UniformHigh
           /\ transaction[c].amount % 10 = 0
    /\ transaction["A"].amount - drawn \in -5..5

\* C8 witness: a draw below 10000.0 was rounded to 10000.00.
C8_Witness ==
    /\ drawn < UniformHigh
    /\ drawn > UniformLow
    /\ transaction["A"].amount = UniformHigh

\* A's put_data_request(t) returned True, then B's delete_collection() returned
\* True, then A's get_all_transaction() returned
PutDeleteGet ==
    /\ Len(hist) >= 3
    /\ Returned
    /\ Back(2).op = "put" /\ Back(2).client = "A" /\ Back(2).ret
    /\ Back(1).op = "delete" /\ Back(1).client = "B" /\ Back(1).ret
    /\ Back(0).client = "A"

\* C9: when B's delete_collection() takes effect between A's successful
\* put_data_request(t) and A's get_all_transaction(), the list A gets is empty
\* and so does not hold t's account_number.
C9_DeleteRace ==
    PutDeleteGet =>
        /\ all_doc = <<>>
        /\ Back(2).data.v.account_number \notin AccountNumbers(all_doc)

\* C9 witness: the interleaving happened, and the vault is empty.
C9_Witness ==
    /\ PutDeleteGet
    /\ vault = <<>>
    /\ Back(2).data.v.account_number \notin AccountNumbers(all_doc)

====
